---- MODULE Spec2Model ----
(***************************************************************************)
(* Model of src/main.py: create_package (manifest, license, README,        *)
(* toolchain upgrade, build, report) and the CLI entry point main.         *)
(*                                                                         *)
(* Python str values and file contents are sequences of one-character      *)
(* strings.  A path is the pair <<directory, name>> that os.path.join      *)
(* builds.  None and "" are both falsy in Python and the code only tests   *)
(* truthiness of license_type and readme_path, so both are the empty       *)
(* sequence here.                                                          *)
(***************************************************************************)
EXTENDS Integers, Sequences, FiniteSets, TLC

\* Longest manifest text the model enumerates.
MaxLen == 4

None == <<>>

LF == "\n"
CR == "\r"

\* Characters manifest texts are built from.
Alphabet == {"k", "=", " ", LF}

RECURSIVE StringsUpTo(_)
StringsUpTo(n) ==
    IF n = 0 THEN {<<>>}
    ELSE LET shorter == StringsUpTo(n - 1)
         IN  shorter \cup {Append(s, c) : s \in {t \in shorter : Len(t) = n - 1}, c \in Alphabet}

Manifests == StringsUpTo(MaxLen)

(***************************************************************************)
(* Python str methods used by the code.                                    *)
(***************************************************************************)

\* Line boundaries of str.splitlines (those a TLA+ string can spell).
LineBreaks == {LF, CR, "\f"}

\* Characters str.strip() removes.
Whitespace == {" ", "\t", LF, CR, "\f"}

RECURSIVE SplitLinesFrom(_, _, _)
SplitLinesFrom(s, i, cur) ==
    IF i > Len(s) THEN (IF cur = <<>> THEN <<>> ELSE <<cur>>)
    ELSE IF s[i] = CR /\ i < Len(s) /\ s[i + 1] = LF
         THEN <<cur>> \o SplitLinesFrom(s, i + 2, <<>>)
    ELSE IF s[i] \in LineBreaks
         THEN <<cur>> \o SplitLinesFrom(s, i + 1, <<>>)
    ELSE SplitLinesFrom(s, i + 1, Append(cur, s[i]))

\* s.splitlines(): the lines of s without their line breaks; no trailing
\* empty line, and [] for the empty string.
splitlines(s) == SplitLinesFrom(s, 1, <<>>)

RECURSIVE SplitFrom(_, _, _, _)
SplitFrom(s, sep, i, cur) ==
    IF i > Len(s) THEN <<cur>>
    ELSE IF s[i] = sep THEN <<cur>> \o SplitFrom(s, sep, i + 1, <<>>)
    ELSE SplitFrom(s, sep, i + 1, Append(cur, s[i]))

\* s.split(sep) for a one-character separator: always at least one piece.
split(s, sep) == SplitFrom(s, sep, 1, <<>>)

RECURSIVE lstrip(_)
lstrip(s) == IF s # <<>> /\ Head(s) \in Whitespace THEN lstrip(Tail(s)) ELSE s

RECURSIVE rstrip(_)
rstrip(s) ==
    IF s # <<>> /\ s[Len(s)] \in Whitespace THEN rstrip(SubSeq(s, 1, Len(s) - 1)) ELSE s

\* s.strip()
strip(s) == rstrip(lstrip(s))

UpperCase == <<"A", "B", "C", "D", "E", "F", "G", "H", "I", "J", "K", "L", "M",
               "N", "O", "P", "Q", "R", "S", "T", "U", "V", "W", "X", "Y", "Z">>
LowerCase == <<"a", "b", "c", "d", "e", "f", "g", "h", "i", "j", "k", "l", "m",
               "n", "o", "p", "q", "r", "s", "t", "u", "v", "w", "x", "y", "z">>

LowerChar(c) ==
    IF \E i \in 1..Len(UpperCase) : UpperCase[i] = c
    THEN LowerCase[CHOOSE i \in 1..Len(UpperCase) : UpperCase[i] = c]
    ELSE c

\* s.lower()
lower(s) == [i \in 1..Len(s) |-> LowerChar(s[i])]

(***************************************************************************)
(* Text-mode file I/O (open(path, "w") / open(path, "r"), newline=None).   *)
(***************************************************************************)

\* os.linesep: "\n" on POSIX, "\r\n" on Windows.
LineSeps == {<<LF>>, <<CR, LF>>}

RECURSIVE TextWrite(_, _)
\* f.write(s) on a text-mode file: every "\n" is written as os.linesep.
TextWrite(s, sep) ==
    IF s = <<>> THEN <<>>
    ELSE (IF Head(s) = LF THEN sep ELSE <<Head(s)>>) \o TextWrite(Tail(s), sep)

RECURSIVE TextRead(_)
\* f.read() on a text-mode file: "\r\n" and "\r" are read as "\n".
TextRead(b) ==
    IF b = <<>> THEN <<>>
    ELSE IF Head(b) = CR /\ Len(b) > 1 /\ b[2] = LF THEN <<LF>> \o TextRead(Tail(Tail(b)))
    ELSE IF Head(b) = CR THEN <<LF>> \o TextRead(Tail(b))
    ELSE <<Head(b)>> \o TextRead(Tail(b))

(***************************************************************************)
(* Constants of the program.                                               *)
(***************************************************************************)

Str_mit == <<"m", "i", "t">>
Str_apache == <<"a", "p", "a", "c", "h", "e", "-", "2", ".", "0">>
Str_gpl == <<"g", "p", "l", "-", "3", ".", "0">>

LICENSE_TEMPLATES ==
    (Str_mit :> "https://raw.githubusercontent.com/OpenSourceInitiative/licenses/master/MIT")
    @@ (Str_apache :> "https://raw.githubusercontent.com/apache/licenses/master/LICENSE-2.0")
    @@ (Str_gpl :> "https://raw.githubusercontent.com/tldr-pages/tldr/master/licenses/gpl-3.0.md")

\* d.get(k): the mapped value, or None (here "", equally falsy) when absent.
Get(d, k) == IF k \in DOMAIN d THEN d[k] ELSE ""

HTTP_OK == 200

\* Exception classes that "except Exception" catches; SystemExit and
\* KeyboardInterrupt derive from BaseException only.
ExceptionClasses ==
    {"ValueError", "OSError", "FileNotFoundError", "SameFileError", "IndexError",
     "ImportError", "AttributeError", "TypeError", "ConnectionError", "DistutilsError"}

IsException(e) == e \in ExceptionClasses

IsImportError(e) == e = "ImportError"

(***************************************************************************)
(* The environment: file system, network, installed toolchain.             *)
(***************************************************************************)

ProjectDir == "proj"

join(dir, name) == <<dir, name>>

OutputNames == {"pyproject.toml", "LICENSE", "README.md"}

ExtReadme == join("ext", "README.md")
ExtMissing == join("ext", "missing.md")
ExtToml == join("ext", "in.toml")

Paths == {join(ProjectDir, n) : n \in OutputNames} \cup {ExtReadme, ExtMissing, ExtToml}

NoFile == [exists |-> FALSE, data |-> <<>>]
File(bytes) == [exists |-> TRUE, data |-> bytes]

\* A project directory left by an earlier run, or an empty one.
StaleData == <<"o", "l", "d">>

InitialFs(stale) ==
    [p \in Paths |->
        IF p = ExtReadme THEN File(<<"#", " ", "r", CR, LF, "x">>)
        ELSE IF p = ExtToml THEN File(<<"k", "=", "v", CR, LF>>)
        ELSE IF p = ExtMissing THEN NoFile
        ELSE IF stale THEN File(StaleData) ELSE NoFile]

isfile(files, p) == p \in DOMAIN files /\ files[p].exists

\* Responses the license server can give.
Statuses == {HTTP_OK, 204, 404, 500}
LicenseText == <<"L", LF>>
NoResponse == [status_code |-> 0, text |-> <<>>]

\* What "import pip; pip.main([...])" can do: return (whatever its exit
\* status), fail to import, or raise something else (pip 10+ may have no
\* pip.main at all).
UpgradeOutcomes == {"returns", "ImportError", "AttributeError"}

\* What the build block can do: find_packages(...)[0] raises IndexError when
\* no package is found; setup() returns, raises a distutils error, or exits
\* the interpreter with SystemExit (its reaction to bad command-line arguments).
BuildOutcomes == {"returns", "IndexError", "DistutilsError", "SystemExit"}

(***************************************************************************)
(* Inputs.                                                                 *)
(***************************************************************************)

LicenseInputs ==
    {None, Str_mit, <<"M", "I", "T">>, <<"A", "p", "a", "c", "h", "e", "-", "2", ".", "0">>,
     Str_gpl, <<"b", "s", "d">>}

ReadmeInputs ==
    {None, ExtReadme, ExtMissing, join(ProjectDir, "README.md"),
     join(ProjectDir, "pyproject.toml")}

NoArgs == [toml |-> None, license |-> None, readme |-> None]

CliArgs ==
    [toml : Manifests \cup {ExtToml, ExtMissing},
     license : {None, Str_mit},
     readme : {None, ExtReadme}]

(***************************************************************************)
(* State.                                                                  *)
(***************************************************************************)

VARIABLES
    pc,            \* position in main / create_package
    args,          \* main: the parsed command line
    toml_content,  \* main's local, then create_package's parameter
    license_type,  \* create_package's parameter
    readme_path,   \* create_package's parameter
    license_url,   \* create_package's local
    response,      \* create_package's local
    linesep,       \* os.linesep of the platform
    fs,            \* the file system: path -> [exists, data]
    fs0,           \* the file system as it was when the run started
    trace,         \* the run's effects on the outside world, in order
    exc            \* the exception that left the entry point, if any

vars == <<pc, args, toml_content, license_type, readme_path, license_url, response,
          linesep, fs, fs0, trace, exc>>

NoExc == [type |-> "", msg |-> ""]
Exc(type, msg) == [type |-> type, msg |-> msg]

\* Statement order of create_package's body.
\* The same body with the toolchain steps moved ahead of the README step.
Steps_build_before_readme == <<"manifest", "license", "upgrade", "build", "readme", "report">>
Steps == <<"manifest", "license", "readme", "upgrade", "build", "report">>

After(step) ==
    LET i == CHOOSE j \in 1..Len(Steps) : Steps[j] = step
    IN  IF i < Len(Steps) THEN Steps[i + 1] ELSE "done"

\* The parameters create_package declares, none with a default.
CreatePackageParams == <<"project_dir", "toml_content", "license_type", "readme_path">>

\* The arguments main's call passes, all positional.
MainCallArgs == <<"args.project_dir", "toml_content">>

manifest_file == join(ProjectDir, "pyproject.toml")
license_file == join(ProjectDir, "LICENSE")
\* A README target that collides with the manifest.
readme_file_manifest == join(ProjectDir, "pyproject.toml")
readme_file == join(ProjectDir, "README.md")

\* Effects recorded in trace.
EvWrite(p) == <<"write", p[1], p[2]>>
EvCopy(p) == <<"copy", p[1], p[2]>>
EvGet(url) == <<"GET", url>>
EvRun(what) == <<"run", what>>
EvPrint(what) == <<"print", what>>

\* An exception propagates out of the entry point.
Raise(type, msg) ==
    /\ exc' = Exc(type, msg)
    /\ pc' = "raised"

(***************************************************************************)
(* create_package                                                          *)
(***************************************************************************)

\* Lines 27-28: open(<project_dir>/pyproject.toml, "w"); f.write(toml_content)
WriteManifest ==
    /\ pc = "manifest"
    /\ \E opens \in BOOLEAN :
        IF opens
        THEN /\ fs' = [fs EXCEPT ![manifest_file] = File(TextWrite(toml_content, linesep))]
             /\ trace' = Append(trace, EvWrite(manifest_file))
             /\ pc' = After("manifest")
             /\ exc' = exc
        ELSE /\ Raise("OSError", "open")
             /\ UNCHANGED <<fs, trace>>
    /\ UNCHANGED <<args, toml_content, license_type, readme_path, license_url, response, linesep, fs0>>

\* The lookup without case folding.
license_key_as_given(t) == t
\* Line 32: the key looked up in LICENSE_TEMPLATES
license_key(t) == lower(t)

\* Lines 31-34: the license lookup
LookupLicense ==
    /\ pc = "license"
    /\ IF license_type = None
       THEN /\ pc' = After("license")
            /\ UNCHANGED <<license_url, exc>>
       ELSE LET url == Get(LICENSE_TEMPLATES, license_key(license_type))
            IN  IF url = ""
                THEN /\ Raise("ValueError", "Invalid license type")
                     /\ UNCHANGED license_url
                ELSE /\ license_url' = url
                     /\ pc' = "fetch"
                     /\ exc' = exc
    /\ UNCHANGED <<args, toml_content, license_type, readme_path, response, linesep, fs0, fs, trace>>

\* Line 35: response = requests.get(license_url)
FetchLicense ==
    /\ pc = "fetch"
    /\ trace' = Append(trace, EvGet(license_url))
    /\ \/ \E st \in Statuses :
            /\ response' = [status_code |-> st, text |-> LicenseText]
            /\ pc' = "store"
            /\ exc' = exc
       \/ /\ Raise("ConnectionError", "requests.get")
          /\ UNCHANGED response
    /\ UNCHANGED <<args, toml_content, license_type, readme_path, license_url, linesep, fs0, fs>>

\* A fetch whose status is never looked at.
fetch_always_succeeded(r) == TRUE
\* Line 36: the status the code accepts
fetch_succeeded(r) == r.status_code = HTTP_OK

\* Lines 36-39: status check, then open(<project_dir>/LICENSE, "w"); f.write(response.text)
StoreLicense ==
    /\ pc = "store"
    /\ IF ~fetch_succeeded(response)
       THEN /\ Raise("ValueError", "Failed to fetch license template")
            /\ UNCHANGED <<fs, trace>>
       ELSE \E opens \in BOOLEAN :
            IF opens
            THEN /\ fs' = [fs EXCEPT ![license_file] = File(TextWrite(response.text, linesep))]
                 /\ trace' = Append(trace, EvWrite(license_file))
                 /\ pc' = After("license")
                 /\ exc' = exc
            ELSE /\ Raise("OSError", "open")
                 /\ UNCHANGED <<fs, trace>>
    /\ UNCHANGED <<args, toml_content, license_type, readme_path, license_url, response, linesep, fs0>>

\* A copy made through text-mode reading instead of byte for byte.
copyfile_as_text(files, src, dst) == [files EXCEPT ![dst] = File(TextRead(files[src].data))]
\* shutil.copyfile(src, dst) once both files are open: dst gets src's bytes.
copyfile(files, src, dst) == [files EXCEPT ![dst] = File(files[src].data)]

\* Line 47: toml_content.splitlines()[0].split('=')[1].strip(); the result,
\* or the IndexError either subscript raises.
readme_title(text) ==
    LET lines == splitlines(text)
    IN  IF Len(lines) < 1 THEN [raises |-> TRUE, value |-> <<>>]
        ELSE LET parts == split(lines[1], "=")
             IN  IF Len(parts) < 2 THEN [raises |-> TRUE, value |-> <<>>]
                 ELSE [raises |-> FALSE, value |-> strip(parts[2])]

\* Lines 42-47: the README is copied from readme_path, or written from the
\* manifest's first line.  open(readme_file, "w") runs before the f-string is
\* evaluated, so an IndexError leaves README.md created and empty.
WriteReadme ==
    /\ pc = "readme"
    /\ IF readme_path # None
       THEN IF ~isfile(fs, readme_path)
            THEN /\ Raise("FileNotFoundError", "copyfile")
                 /\ UNCHANGED <<fs, trace>>
            ELSE IF readme_path = readme_file
            THEN /\ Raise("SameFileError", "copyfile")
                 /\ UNCHANGED <<fs, trace>>
            ELSE \E opens \in BOOLEAN :
                 IF opens
                 THEN /\ fs' = copyfile(fs, readme_path, readme_file)
                      /\ trace' = Append(trace, EvCopy(readme_file))
                      /\ pc' = After("readme")
                      /\ exc' = exc
                 ELSE /\ Raise("OSError", "open")
                      /\ UNCHANGED <<fs, trace>>
       ELSE \E opens \in BOOLEAN :
            IF opens
            THEN LET title == readme_title(toml_content)
                 IN  /\ trace' = Append(trace, EvWrite(readme_file))
                     /\ IF title.raises
                        THEN /\ fs' = [fs EXCEPT ![readme_file] = File(<<>>)]
                             /\ Raise("IndexError", "list index out of range")
                        ELSE /\ fs' = [fs EXCEPT ![readme_file] =
                                          File(TextWrite(<<"#", " ">> \o title.value, linesep))]
                             /\ pc' = After("readme")
                             /\ exc' = exc
            ELSE /\ Raise("OSError", "open")
                 /\ UNCHANGED <<fs, trace>>
    /\ UNCHANGED <<args, toml_content, license_type, readme_path, license_url, response, linesep, fs0>>

\* Lines 50-54: import pip; pip.main([...]), guarded by "except ImportError"
UpgradeToolchain ==
    /\ pc = "upgrade"
    /\ \E outcome \in UpgradeOutcomes :
        IF outcome = "returns"
        THEN /\ trace' = Append(trace, EvRun("pip.main"))
             /\ pc' = After("upgrade")
             /\ exc' = exc
        ELSE IF IsImportError(outcome)
        THEN /\ trace' = trace \o <<EvRun("pip.main raised " \o outcome), EvPrint("Warning")>>
             /\ pc' = After("upgrade")
             /\ exc' = exc
        ELSE /\ trace' = Append(trace, EvRun("pip.main raised " \o outcome))
             /\ Raise(outcome, "pip.main")
    /\ UNCHANGED <<args, toml_content, license_type, readme_path, license_url, response,
                   linesep, fs0, fs>>

\* Lines 57-65: os.system(...); setup(name=find_packages(...)[0], ...),
\* guarded by "except Exception"
Build ==
    /\ pc = "build"
    /\ \E outcome \in BuildOutcomes :
        IF outcome = "returns"
        THEN /\ trace' = Append(trace, EvRun("setup"))
             /\ pc' = After("build")
             /\ exc' = exc
        ELSE IF IsException(outcome)
        THEN /\ trace' = trace \o <<EvRun("setup raised " \o outcome), EvPrint("Error")>>
             /\ pc' = After("build")
             /\ exc' = exc
        ELSE /\ trace' = Append(trace, EvRun("setup raised " \o outcome))
             /\ Raise(outcome, "setup")
    /\ UNCHANGED <<args, toml_content, license_type, readme_path, license_url, response,
                   linesep, fs0, fs>>

\* Line 67: print("Package created successfully in: ...")
Report ==
    /\ pc = "report"
    /\ trace' = Append(trace, EvPrint("Success"))
    /\ pc' = After("report")
    /\ UNCHANGED <<args, toml_content, license_type, readme_path, license_url, response,
                   linesep, fs0, fs, exc>>

(***************************************************************************)
(* main                                                                    *)
(***************************************************************************)

\* Lines 87-92: the manifest text is the file's content when --toml names a
\* file, and the --toml string itself otherwise.
ResolveToml ==
    /\ pc = "main"
    /\ toml_content' = IF isfile(fs, args.toml) THEN TextRead(fs[args.toml].data) ELSE args.toml
    /\ pc' = "call"
    /\ UNCHANGED <<args, license_type, readme_path, license_url, response, linesep, fs0, fs,
                   trace, exc>>

\* Line 94: create_package(args.project_dir, toml_content).  Python binds the
\* arguments before running the body and raises TypeError when a parameter
\* without a default gets none.
CallCreatePackage ==
    /\ pc = "call"
    /\ IF Len(MainCallArgs) = Len(CreatePackageParams)
       THEN /\ license_type' = args.license
            /\ readme_path' = args.readme
            /\ pc' = Steps[1]
            /\ exc' = exc
       ELSE /\ Raise("TypeError", "missing required positional arguments")
            /\ UNCHANGED <<license_type, readme_path>>
    /\ UNCHANGED <<args, toml_content, license_url, response, linesep, fs0, fs, trace>>

(***************************************************************************)
(* Specification: a run starts either at create_package, called with any   *)
(* arguments, or at main with any command line.                            *)
(***************************************************************************)

Init ==
    /\ linesep \in LineSeps
    /\ \E stale \in BOOLEAN : fs = InitialFs(stale)
    /\ fs0 = fs
    /\ license_url = ""
    /\ response = NoResponse
    /\ trace = <<>>
    /\ exc = NoExc
    /\ \/ /\ pc = Steps[1]
          /\ args = NoArgs
          /\ toml_content \in Manifests
          /\ license_type \in LicenseInputs
          /\ readme_path \in ReadmeInputs
       \/ /\ pc = "main"
          /\ args \in CliArgs
          /\ toml_content = <<>>
          /\ license_type = None
          /\ readme_path = None

Next ==
    \/ WriteManifest
    \/ LookupLicense
    \/ FetchLicense
    \/ StoreLicense
    \/ WriteReadme
    \/ UpgradeToolchain
    \/ Build
    \/ Report
    \/ ResolveToml
    \/ CallCreatePackage

Spec == Init /\ [][Next]_vars

(***************************************************************************)
(* Vocabulary of the properties.                                           *)
(***************************************************************************)

Terminated == pc \in {"done", "raised"}

\* How often an effect happened, and how often a file was opened for writing.
Count(ev) == Cardinality({i \in 1..Len(trace) : trace[i] = ev})
Writes(p) == Count(EvWrite(p)) + Count(EvCopy(p))
Happened(ev) == Count(ev) > 0

Gets == {trace[i] : i \in {j \in 1..Len(trace) : trace[j][1] = "GET"}}

FileEvents == {i \in 1..Len(trace) : trace[i][1] \in {"write", "copy"}}
ToolEvents == {i \in 1..Len(trace) : trace[i][1] = "run"}

OutputPaths == {join(ProjectDir, n) : n \in OutputNames}

\* Position of the first '=' of a line, 0 if it has none.
FirstEq(line) ==
    IF \E i \in 1..Len(line) : line[i] = "="
    THEN CHOOSE i \in 1..Len(line) : line[i] = "=" /\ \A j \in 1..(i - 1) : line[j] # "="
    ELSE 0

\* The text up to its first line break.
FirstLineOf(text) ==
    IF \E i \in 1..Len(text) : text[i] \in {LF, CR}
    THEN SubSeq(text, 1, (CHOOSE i \in 1..Len(text) :
                             text[i] \in {LF, CR} /\ \A j \in 1..(i - 1) : text[j] \notin {LF, CR}) - 1)
    ELSE text

Blank(s) == \A i \in 1..Len(s) : s[i] = " "

\* Leading and trailing blanks removed.
Trimmed(s) ==
    IF Blank(s) THEN <<>>
    ELSE LET first == CHOOSE i \in 1..Len(s) : s[i] # " " /\ \A j \in 1..(i - 1) : s[j] = " "
             last == CHOOSE i \in 1..Len(s) : s[i] # " " /\ \A j \in (i + 1)..Len(s) : s[j] = " "
         IN  SubSeq(s, first, last)

\* The first line reads key = value, with a key and a value.
KeyValueFirstLine(text) ==
    LET line == FirstLineOf(text)
        eq == FirstEq(line)
    IN  /\ eq > 1
        /\ ~Blank(SubSeq(line, 1, eq - 1))
        /\ ~Blank(SubSeq(line, eq + 1, Len(line)))

\* Everything after the key's '='.
ValuePortion(text) ==
    LET line == FirstLineOf(text)
    IN  SubSeq(line, FirstEq(line) + 1, Len(line))

SameLetter(a, b) ==
    \/ a = b
    \/ \E i \in 1..Len(UpperCase) : {a, b} = {UpperCase[i], LowerCase[i]}

EqIgnoreCase(a, b) == Len(a) = Len(b) /\ \A i \in 1..Len(a) : SameLetter(a[i], b[i])

SupportedKeys == {Str_mit, Str_apache, Str_gpl}

\* The license lookup of this run has been made.
LookupDone ==
    /\ license_type # None
    /\ Happened(EvWrite(manifest_file))
    /\ pc # "license"

BuildRaised == \E o \in BuildOutcomes : Happened(EvRun("setup raised " \o o))
UpgradeRaised == \E o \in UpgradeOutcomes : Happened(EvRun("pip.main raised " \o o))

(***************************************************************************)
(* Properties.                                                             *)
(***************************************************************************)

\* C1: with no README path and a manifest whose first line reads key = value,
\* the README written is "# " followed by the whole value (everything after
\* the key's '='), trimmed.
C1_ReadmeIsWholeValue ==
    (/\ readme_path = None
     /\ KeyValueFirstLine(toml_content)
     /\ Happened(EvWrite(readme_file)))
    => fs[readme_file] = File(<<"#", " ">> \o Trimmed(ValuePortion(toml_content)))

\* C2: whatever the build step raises is caught and logged, nothing
\* propagates to the caller, and the run reports success.
C2_BuildFailureNeverPropagates ==
    BuildRaised =>
        /\ exc = NoExc
        /\ Happened(EvPrint("Error"))
        /\ pc \in {"report", "done"}
        /\ pc = "done" => Happened(EvPrint("Success"))

\* C3: whatever way the toolchain upgrade fails, a warning is printed, the
\* build step is reached and the run ends reporting success.
C3_UpgradeFailureNonFatal ==
    UpgradeRaised =>
        /\ Happened(EvPrint("Warning"))
        /\ pc # "raised"
        /\ pc = "done" => Happened(EvPrint("Success"))

\* C4: a non-empty license key that matches mit, apache-2.0 or gpl-3.0
\* regardless of case leads to one GET, of exactly the URL mapped to that key;
\* any other key raises "Invalid license type" with no GET made and no LICENSE
\* written.
C4_LicenseLookup ==
    LookupDone =>
        IF \E k \in SupportedKeys : EqIgnoreCase(license_type, k)
        THEN LET k == CHOOSE key \in SupportedKeys : EqIgnoreCase(license_type, key)
             IN  /\ exc.msg # "Invalid license type"
                 /\ Gets \subseteq {EvGet(LICENSE_TEMPLATES[k])}
                 /\ Count(EvGet(LICENSE_TEMPLATES[k])) = (IF pc = "fetch" THEN 0 ELSE 1)
        ELSE /\ exc = Exc("ValueError", "Invalid license type")
             /\ pc = "raised"
             /\ Gets = {}
             /\ Writes(license_file) = 0
             /\ fs[license_file] = fs0[license_file]

C4_Witness ==
    /\ license_type = <<"M", "I", "T">>
    /\ Happened(EvGet(LICENSE_TEMPLATES[Str_mit]))
    /\ pc = "done"

\* C5: a response whose status is not 200 aborts the run with the
\* fetch-failed error before LICENSE is opened: no LICENSE is created, and
\* neither the README step nor the toolchain steps run.
C5_FetchFailureWritesNothing ==
    (response # NoResponse /\ response.status_code # 200 /\ pc # "store") =>
        /\ exc = Exc("ValueError", "Failed to fetch license template")
        /\ pc = "raised"
        /\ Writes(license_file) = 0
        /\ fs[license_file] = fs0[license_file]
        /\ Writes(readme_file) = 0
        /\ fs[readme_file] = fs0[readme_file]
        /\ ToolEvents = {}

C5_Witness ==
    /\ response.status_code = 404
    /\ pc = "raised"
    /\ ~fs[license_file].exists

\* The toolchain steps have been reached.
ToolchainReached == pc \in {"upgrade", "build"} \/ ToolEvents # {}

C6_FilesInPlace ==
    ToolchainReached =>
        /\ fs[manifest_file].exists /\ Writes(manifest_file) = 1
        /\ license_type # None => (fs[license_file].exists /\ Writes(license_file) = 1)
        /\ fs[readme_file].exists /\ Writes(readme_file) = 1
        /\ \A i \in FileEvents, j \in ToolEvents : i < j

\* C6: the manifest, the license (if requested) and the README are written
\* before the toolchain upgrade and the build are attempted, so they exist
\* whenever those steps are reached, and those steps, failing or not, leave
\* the files as they are.
C6_FilesBeforeToolchain ==
    /\ []C6_FilesInPlace
    /\ [][ToolchainReached => fs' = fs]_vars

C6_Witness ==
    /\ BuildRaised
    /\ license_type # None
    /\ \A p \in OutputPaths : fs[p].exists /\ Writes(p) = 1

C7_WrittenOnce ==
    /\ \A p \in OutputPaths : Writes(p) <= 1
    /\ \A p \in Paths \ OutputPaths : Writes(p) = 0
    /\ pc = "done" => (Writes(manifest_file) = 1 /\ fs[manifest_file].exists)

\* C7: a run produces exactly one manifest, at most one LICENSE and at most
\* one README, each written at most once, and a file once written is not
\* written or changed by any later step.
C7_OneFileEachNeverRewritten ==
    /\ []C7_WrittenOnce
    /\ [][\A p \in Paths : Writes(p) >= 1 => (fs'[p] = fs[p] /\ Writes(p)' = Writes(p))]_vars

C7_Witness ==
    /\ pc = "done"
    /\ \A p \in OutputPaths : Writes(p) = 1
    /\ fs0[manifest_file].exists

\* The manifest text main resolves from --toml.
ResolvedToml ==
    IF isfile(fs0, args.toml) THEN fs0[args.toml].data ELSE args.toml

\* C8: a run through main writes the resolved manifest text to
\* <project_dir>/pyproject.toml and produces <project_dir>/README.md.
C8_MainProducesFiles ==
    (args # NoArgs /\ Terminated) =>
        /\ Happened(EvWrite(manifest_file))
        /\ fs[manifest_file] = File(ResolvedToml)
        /\ fs[readme_file].exists /\ Writes(readme_file) = 1

\* C9: once step 1 is done, whatever happens later, pyproject.toml holds the
\* input manifest text exactly.
C9_ManifestVerbatim ==
    Happened(EvWrite(manifest_file)) => fs[manifest_file] = File(toml_content)

\* The README step has run to its end with a README path given.
ReadmeStepDone == readme_path # None /\ pc \in {"upgrade", "build", "report", "done"}

C10_ReadmeIsCopy ==
    /\ ReadmeStepDone => Happened(EvCopy(readme_file))
    /\ Happened(EvCopy(readme_file)) =>
        /\ readme_path # None
        /\ fs[readme_file] = File(fs[readme_path].data)
        /\ ~Happened(EvWrite(readme_file))
        /\ readme_path \notin OutputPaths => fs[readme_path] = fs0[readme_path]

====
